---- MODULE Spec2Model ----
(***************************************************************************)
(* TorchscriptHook (classy_vision/hooks/torchscript_hook.py): the hook     *)
(* that saves a task's model as torchscript at the end of a run.           *)
(*                                                                         *)
(* A distributed run is a set of processes (ranks).  Every process holds   *)
(* a replica of the same hook configuration and of the same model, and     *)
(* receives on_start / on_end in any interleaving.  The storage backend    *)
(* (g_pathmgr) is shared by all processes.  on_end is modelled step by     *)
(* step (pc) so that the states in which the tracer or the scripter is     *)
(* executing, and in which a storage handle is open, are visible.          *)
(***************************************************************************)
EXTENDS Integers, Sequences, FiniteSets, TLC

\* ------------------------------------------------------------- bounds
NumProcs == 2
MaxCalls == 2

Procs == 0 .. (NumProcs - 1)

\* ---------------------------------------------------------- constants
TORCHSCRIPT_FILE == "torchscript.pt"

\* ------------------------------------------------------- input domains
\* Constructor arguments: the folder argument is a tagged value, so that a
\* non-string argument can be passed (Python is dynamically typed).
FolderArgs ==
    { [type |-> "str", val |-> "out"],
      [type |-> "str", val |-> ""],
      [type |-> "int", val |-> "7"] }

Devices == {"cpu", "cuda"}

\* Model attributes.  input_shape / input_key are optional attributes:
\* has = FALSE is "the model has no such attribute".
InputShapes ==
    { [has |-> FALSE, val |-> << >>],
      [has |-> TRUE,  val |-> << >>],
      [has |-> TRUE,  val |-> <<3, 2>>] }

InputKeys ==
    { [has |-> FALSE, val |-> ""],
      [has |-> TRUE,  val |-> "video"] }

Models ==
    [ input_shape : InputShapes, input_key : InputKeys, device : Devices ]

\* Directories that may exist in the storage backend before the run.
Folders == { a.val : a \in { b \in FolderArgs : b.type = "str" } }

\* ------------------------------------------------------------- values
NoError == [type |-> "none", msg |-> << >>]

NoResult == [status |-> "none", error |-> NoError]

Returned == [status |-> "returned", error |-> NoError]

Raised(err) == [status |-> "raised", error |-> err]

None == [kind |-> "None"]

NoFile == [exists |-> FALSE, data |-> << >>]

VARIABLES
    ctor,          \* the arguments the constructor was called with
    entry,         \* per process: model mode, grad setting and files when save_torchscript began
    hook,          \* the hook's configuration (one replica per process, all equal)
    model,         \* attributes of the task's base model (replicated)
    dirs,          \* directories that exist in the storage backend
    files,         \* storage backend: path -> file
    handles,       \* storage handles currently open: [owner, path, mode]
    writers,       \* processes that have ever opened a file for writing
    pc,            \* per process: position inside the current callback
    training,      \* per process: model.training
    grad_enabled,  \* per process: torch.is_grad_enabled()
    scope,         \* per process: what the entered context manager restores
    torchscript,   \* per process: the local variable torchscript
    pending,       \* per process: exception in flight inside the with block
    fault,         \* per process: error a collaborator raised in the current call
    log,           \* per process: collaborator calls of the current / last call
    io,            \* per process: storage accesses of the current / last call
    last_call,     \* per process: the callback result belongs to
    result,        \* per process: outcome of the last finished callback
    ends,          \* per process: number of on_end calls entered
    returns,       \* per process: number of on_end calls that returned normally
    exports,       \* per process: tracer / scripter invocations over the run
    saves,         \* storage backend: the completed writes, in order
    calls          \* callbacks invoked so far in the run

vars ==
    << ctor, entry, hook, model, dirs, files, handles, writers, pc, training,
       grad_enabled, scope, torchscript, pending, fault, log, io, last_call, result,
       ends, returns, exports, saves, calls >>

\* ------------------------------------------------------- constructor
\* Variant that puts a default folder in the place of an empty one.
TorchscriptHook_default_folder(torchscript_folder, use_trace, trace_strict, device) ==
    IF torchscript_folder.type # "str"
    THEN [ ok |-> FALSE, error |-> "AssertionError", torchscript_folder |-> "",
           use_trace |-> use_trace, trace_strict |-> trace_strict,
           device |-> device ]
    ELSE [ ok |-> TRUE, error |-> "none",
           torchscript_folder |->
               IF torchscript_folder.val = "" THEN "out" ELSE torchscript_folder.val,
           use_trace |-> use_trace, trace_strict |-> trace_strict,
           device |-> device ]

\* Variant without the assert: whatever is passed is stored.
TorchscriptHook_no_assert(torchscript_folder, use_trace, trace_strict, device) ==
    [ ok |-> TRUE, error |-> "none",
      torchscript_folder |-> torchscript_folder.val,
      use_trace |-> use_trace, trace_strict |-> trace_strict,
      device |-> device ]

\* __init__: the assert on the folder's type, then the four arguments are
\* stored as given.
TorchscriptHook(torchscript_folder, use_trace, trace_strict, device) ==
    IF torchscript_folder.type # "str"
    THEN [ ok |-> FALSE, error |-> "AssertionError", torchscript_folder |-> "",
           use_trace |-> use_trace, trace_strict |-> trace_strict,
           device |-> device ]
    ELSE [ ok |-> TRUE, error |-> "none",
           torchscript_folder |-> torchscript_folder.val,
           use_trace |-> use_trace, trace_strict |-> trace_strict,
           device |-> device ]

\* ------------------------------------------------------ collaborators
\* classy_vision.generic.distributed_util.is_primary(): the designated
\* writer is the process of the primary rank.
PRIMARY_RANK == 0

is_primary(p) == p = PRIMARY_RANK

\* g_pathmgr.exists(path)
exists(path) == path \in dirs

\* Variant that joins folder and file name without the separator.
torchscript_name_no_separator(folder) == << folder, TORCHSCRIPT_FILE >>

\* f"{self.torchscript_folder}/{TORCHSCRIPT_FILE}"
torchscript_name(folder) == << folder, "/", TORCHSCRIPT_FILE >>

Paths == { torchscript_name(f) : f \in Folders }

\* Variant whose message does not name the folder.
err_msg_without_folder(folder) == << "Torchscript folder does not exist." >>

\* "Torchscript folder '{}' does not exist.".format(self.torchscript_folder)
err_msg(folder) == << "Torchscript folder '", folder, "' does not exist." >>

FileNotFoundError(folder) == [type |-> "FileNotFoundError", msg |-> err_msg(folder)]

\* torchscript is None when torchscript.to(...) is evaluated
AttributeError ==
    [type |-> "AttributeError", msg |-> << "'NoneType' object has no attribute 'to'" >>]

\* Errors the collaborators raise for reasons of their own.
TraceError == [type |-> "TracingCheckError", msg |-> << "torch.jit.trace" >>]

ScriptError == [type |-> "ScriptCompileError", msg |-> << "torch.jit.script" >>]

DeviceError == [type |-> "DeviceError", msg |-> << "to" >>]

OpenError == [type |-> "OSError", msg |-> << "g_pathmgr.open" >>]

SaveError == [type |-> "SerializeError", msg |-> << "torch.jit.save" >>]

\* Variant that only asks whether the attribute is there (`is not None`).
Truthy_is_present(shape) == shape.has

\* Python truth value: an empty tuple is false, a non-empty one is true;
\* None (an absent attribute replaced by None) is false.
Truthy(shape) == shape.has /\ Len(shape.val) > 0

\* model.input_shape if hasattr(model, "input_shape") else None
getattr_or_None(attr) == IF attr.has THEN attr ELSE [has |-> FALSE, val |-> attr.val]

\* classy_vision.generic.util.get_model_dummy_input(model, input_shape, input_key):
\* one sample of the shape, wrapped under the key if there is one.
get_model_dummy_input(m, input_shape, input_key) ==
    [ shape |-> input_shape.val, keyed |-> input_key.has, key |-> input_key.val ]

\* Context managers.  eval_model(model) puts the model in evaluation mode
\* when entered and restores the mode on exit; torch.no_grad() disables
\* gradient tracking when entered and restores it on exit.
eval_model == [cm |-> "eval_model"]

no_grad == [cm |-> "no_grad"]

\* A context manager object defines neither __bool__ nor __len__: it is true.
CmTruthy(cm) == TRUE

\* Variant that yields the first operand (as `a or b` does for a true a).
PyAnd_first(a, b) == a

\* Python's `a and b`: a if a is false, otherwise b.
PyAnd(a, b) == IF CmTruthy(a) THEN b ELSE a

\* The context expression of `with eval_model(model) and torch.no_grad():`
with_item == PyAnd(eval_model, no_grad)

\* __enter__ of the context manager the with statement was given.
enter_training(cm, mode) == IF cm.cm = "eval_model" THEN FALSE ELSE mode

enter_grad(cm, grad) == IF cm.cm = "no_grad" THEN FALSE ELSE grad

\* __exit__ of that context manager: what it changed is set back.
exit_training(cm, mode, saved) == IF cm.cm = "eval_model" THEN saved ELSE mode

exit_grad(cm, grad, saved) == IF cm.cm = "no_grad" THEN saved ELSE grad

\* torch.jit.trace(model, input_data, strict=self.trace_strict)
torch_jit_trace(m, mode, input_data, strict) ==
    [ kind |-> "trace", input |-> input_data, strict |-> strict,
      training |-> mode, device |-> m.device ]

\* torch.jit.script(model)
torch_jit_script(m, mode) ==
    [ kind |-> "script",
      input |-> [shape |-> << >>, keyed |-> FALSE, key |-> ""],
      strict |-> TRUE, training |-> mode, device |-> m.device ]

\* Variant that leaves the program on the model's device.
to_stays(program, device) == program

\* torchscript.to(self.device)
to(program, device) == [program EXCEPT !.device = device]

\* torch.jit.save(torchscript, f): the bytes written for a program
serialize(program) == << "PK", program >>

\* g_pathmgr.open(path, "wb"): the file is created or truncated
truncated == [exists |-> TRUE, data |-> << >>]

\* ----------------------------------------------------------------- Init
Init ==
    /\ ctor \in [ torchscript_folder : FolderArgs, use_trace : BOOLEAN,
                   trace_strict : BOOLEAN, device : Devices ]
    /\ hook = TorchscriptHook(ctor.torchscript_folder, ctor.use_trace,
                              ctor.trace_strict, ctor.device)
    /\ model \in Models
    /\ dirs \in SUBSET { "out" }
    /\ files = [path \in Paths |-> NoFile]
    /\ handles = {}
    /\ writers = {}
    /\ pc = [p \in Procs |-> "idle"]
    /\ training \in { [p \in Procs |-> b] : b \in BOOLEAN }
    /\ grad_enabled \in { [p \in Procs |-> b] : b \in BOOLEAN }
    /\ scope = [p \in Procs |-> [training |-> training[p], grad |-> grad_enabled[p]]]
    /\ entry = [p \in Procs |->
                  [training |-> training[p], grad |-> grad_enabled[p], files |-> files]]
    /\ torchscript = [p \in Procs |-> None]
    /\ pending = [p \in Procs |-> NoError]
    /\ fault = [p \in Procs |-> NoError]
    /\ log = [p \in Procs |-> << >>]
    /\ io = [p \in Procs |-> << >>]
    /\ last_call = [p \in Procs |-> "none"]
    /\ result = [p \in Procs |-> NoResult]
    /\ ends = [p \in Procs |-> 0]
    /\ returns = [p \in Procs |-> 0]
    /\ exports = [p \in Procs |-> 0]
    /\ saves = << >>
    /\ calls = 0

\* -------------------------------------------------------------- actions
\* A callback may be invoked on a process that is in no callback, on a hook
\* that was constructed, while the run has callbacks left.
CanCall(p) == pc[p] = "idle" /\ hook.ok /\ calls < MaxCalls

\* The exception err leaves the callback of process p.
Raise(p, err) ==
    /\ pc' = [pc EXCEPT ![p] = "idle"]
    /\ result' = [result EXCEPT ![p] = Raised(err)]

\* Variant that remembers an earlier export and does not repeat it.
on_end_returns_early_once_exported(p) == ~is_primary(p) \/ ends[p] >= 1

\* Variants without the rank check (every process goes on).
on_start_never_returns_early(p) == FALSE

on_end_never_returns_early(p) == FALSE

\* lines 101-102 and 111-112: `if not is_primary(): return`
on_start_returns_early(p) == ~is_primary(p)

on_end_returns_early(p) == ~is_primary(p)

\* Variant with the two strategies swapped.
strategy_swapped(h) == IF h.use_trace THEN "using_script" ELSE "using_trace"

\* Variant that traces whatever use_trace says.
strategy_always_trace(h) == "using_trace"

\* save_torchscript, lines 87-91: the strategy is chosen by use_trace
strategy(h) == IF h.use_trace THEN "using_trace" ELSE "using_script"

\* ClassyHook._noop(self, *args, **kwargs): returns None and does nothing.
\* Only the run's count of callbacks moves on; last_call and result keep
\* describing the last on_start / on_end.
noop(p) ==
    /\ CanCall(p)
    /\ calls' = calls + 1
    /\ UNCHANGED << ctor, entry, hook, model, dirs, files, handles, writers, pc,
                    training, grad_enabled, scope, torchscript, pending, fault,
                    log, io, last_call, result, ends, returns, exports, saves >>

\* Variant that exports the model at the end of every phase.
on_phase_end_exports(p) ==
    /\ CanCall(p)
    /\ calls' = calls + 1
    /\ pc' = [pc EXCEPT ![p] = IF is_primary(p) THEN strategy(hook) ELSE @]
    /\ UNCHANGED << ctor, entry, hook, model, dirs, files, handles, writers,
                    training, grad_enabled, scope, torchscript, pending, fault,
                    log, io, last_call, result, ends, returns, exports, saves >>

\* lines 29-31: the three callbacks are bound to ClassyHook._noop
on_phase_start(p) == noop(p)

on_phase_end(p) == noop(p)

on_step(p) == noop(p)

\* on_start (lines 100-107)
on_start(p) ==
    /\ CanCall(p)
    /\ calls' = calls + 1
    /\ last_call' = [last_call EXCEPT ![p] = "on_start"]
    /\ log' = [log EXCEPT ![p] = << >>]
    /\ fault' = [fault EXCEPT ![p] = NoError]
    /\ IF on_start_returns_early(p)
       THEN /\ io' = [io EXCEPT ![p] = << >>]
            /\ result' = [result EXCEPT ![p] = Returned]
       ELSE /\ io' = [io EXCEPT ![p] =
                        << [op |-> "exists", path |-> << hook.torchscript_folder >>,
                            mode |-> ""] >>]
            /\ IF ~exists(hook.torchscript_folder)
               THEN result' = [result EXCEPT ![p] =
                                 Raised(FileNotFoundError(hook.torchscript_folder))]
               ELSE result' = [result EXCEPT ![p] = Returned]
    /\ UNCHANGED << ctor, entry, hook, model, dirs, files, handles, writers, pc, training,
                    grad_enabled, scope, torchscript, pending, ends, returns,
                    exports, saves >>

\* on_end (lines 109-113) up to the choice of the strategy in
\* save_torchscript (lines 86-91)
on_end(p) ==
    /\ CanCall(p)
    /\ calls' = calls + 1
    /\ ends' = [ends EXCEPT ![p] = @ + 1]
    /\ last_call' = [last_call EXCEPT ![p] = "on_end"]
    /\ log' = [log EXCEPT ![p] = << >>]
    /\ io' = [io EXCEPT ![p] = << >>]
    /\ fault' = [fault EXCEPT ![p] = NoError]
    /\ torchscript' = [torchscript EXCEPT ![p] = None]
    /\ IF on_end_returns_early(p)
       THEN /\ result' = [result EXCEPT ![p] = Returned]
            /\ returns' = [returns EXCEPT ![p] = @ + 1]
            /\ pc' = pc
            /\ entry' = entry
       ELSE /\ result' = [result EXCEPT ![p] = NoResult]
            /\ returns' = returns
            /\ pc' = [pc EXCEPT ![p] = strategy(hook)]
            /\ entry' = [entry EXCEPT ![p] =
                           [training |-> training[p], grad |-> grad_enabled[p],
                            files |-> files]]
    /\ UNCHANGED << ctor, hook, model, dirs, files, handles, writers, training,
                    grad_enabled, scope, pending, exports, saves >>

\* Variant that calls model.eval() before the block instead of scoping it.
EnterWith_model_eval(p) ==
    /\ scope' = [scope EXCEPT ![p] =
                   [training |-> training[p], grad |-> grad_enabled[p]]]
    /\ training' = [training EXCEPT ![p] = FALSE]
    /\ grad_enabled' = [grad_enabled EXCEPT ![p] = enter_grad(with_item, @)]

\* The with statement of lines 76 and 81 is entered by process p.
EnterWith(p) ==
    /\ scope' = [scope EXCEPT ![p] =
                   [training |-> training[p], grad |-> grad_enabled[p]]]
    /\ training' = [training EXCEPT ![p] = enter_training(with_item, @)]
    /\ grad_enabled' = [grad_enabled EXCEPT ![p] = enter_grad(with_item, @)]

\* ... and left, normally or by an exception.
ExitWith(p) ==
    /\ training' = [training EXCEPT ![p] =
                      exit_training(with_item, @, scope[p].training)]
    /\ grad_enabled' = [grad_enabled EXCEPT ![p] =
                          exit_grad(with_item, @, scope[p].grad)]
    /\ scope' = scope

\* torchscript_using_trace, lines 64-76: the input shape is looked up; without
\* one the method returns None, with one the dummy input is built and the
\* with block is entered.
torchscript_using_trace(p) ==
    /\ pc[p] = "using_trace"
    /\ LET input_shape == getattr_or_None(model.input_shape) IN
       IF ~Truthy(input_shape)
       THEN /\ log' = [log EXCEPT ![p] = @ \o << "input_shape", "warning" >>]
            /\ torchscript' = [torchscript EXCEPT ![p] = None]
            /\ pc' = [pc EXCEPT ![p] = "to"]
            /\ UNCHANGED << training, grad_enabled, scope >>
       ELSE /\ log' = [log EXCEPT ![p] =
                         @ \o << "input_shape", "input_key", "get_model_dummy_input" >>]
            /\ torchscript' = torchscript
            /\ pc' = [pc EXCEPT ![p] = "trace"]
            /\ EnterWith(p)
    /\ UNCHANGED << ctor, entry, hook, model, dirs, files, handles, writers, pending, fault,
                    io, last_call, result, ends, returns, exports, saves, calls >>

\* lines 77-78: torch.jit.trace runs inside the with block and returns the
\* program, or raises.
trace(p) ==
    /\ pc[p] = "trace"
    /\ log' = [log EXCEPT ![p] = Append(@, "trace")]
    /\ exports' = [exports EXCEPT ![p] = @ + 1]
    /\ ExitWith(p)
    /\ \E ok \in BOOLEAN :
         IF ok
         THEN /\ torchscript' = [torchscript EXCEPT ![p] =
                   torch_jit_trace(model, training[p],
                       get_model_dummy_input(model,
                           getattr_or_None(model.input_shape),
                           getattr_or_None(model.input_key)),
                       hook.trace_strict)]
              /\ pc' = [pc EXCEPT ![p] = "to"]
              /\ UNCHANGED << fault, result >>
         ELSE /\ fault' = [fault EXCEPT ![p] = TraceError]
              /\ Raise(p, TraceError)
              /\ torchscript' = torchscript
    /\ UNCHANGED << ctor, entry, hook, model, dirs, files, handles, writers, pending, io,
                    last_call, ends, returns, saves, calls >>

\* torchscript_using_script, line 81: the with block is entered.
torchscript_using_script(p) ==
    /\ pc[p] = "using_script"
    /\ pc' = [pc EXCEPT ![p] = "script"]
    /\ EnterWith(p)
    /\ UNCHANGED << ctor, entry, hook, model, dirs, files, handles, writers, torchscript,
                    pending, fault, log, io, last_call, result, ends, returns,
                    exports, saves, calls >>

\* lines 82-83: torch.jit.script runs inside the with block.
script(p) ==
    /\ pc[p] = "script"
    /\ log' = [log EXCEPT ![p] = Append(@, "script")]
    /\ exports' = [exports EXCEPT ![p] = @ + 1]
    /\ ExitWith(p)
    /\ \E ok \in BOOLEAN :
         IF ok
         THEN /\ torchscript' = [torchscript EXCEPT ![p] =
                                   torch_jit_script(model, training[p])]
              /\ pc' = [pc EXCEPT ![p] = "to"]
              /\ UNCHANGED << fault, result >>
         ELSE /\ fault' = [fault EXCEPT ![p] = ScriptError]
              /\ Raise(p, ScriptError)
              /\ torchscript' = torchscript
    /\ UNCHANGED << ctor, entry, hook, model, dirs, files, handles, writers, pending, io,
                    last_call, ends, returns, saves, calls >>

\* Variant in which the file has already been opened for writing when the
\* program is moved, so that a failing move leaves it truncated.
relocate_after_open(p) ==
    /\ pc[p] = "to"
    /\ IF torchscript[p] = None
       THEN /\ Raise(p, AttributeError)
            /\ UNCHANGED << torchscript, fault, log, files >>
       ELSE /\ log' = [log EXCEPT ![p] = Append(@, "to")]
            /\ \E ok \in BOOLEAN :
                 IF ok
                 THEN /\ torchscript' = [torchscript EXCEPT ![p] = to(@, hook.device)]
                      /\ pc' = [pc EXCEPT ![p] = "open"]
                      /\ UNCHANGED << fault, result, files >>
                 ELSE /\ fault' = [fault EXCEPT ![p] = DeviceError]
                      /\ Raise(p, DeviceError)
                      /\ torchscript' = torchscript
                      /\ files' = [files EXCEPT
                            ![torchscript_name(hook.torchscript_folder)] = truncated]
    /\ UNCHANGED << ctor, entry, hook, model, dirs, handles, writers, training,
                    grad_enabled, scope, pending, io, last_call, ends, returns,
                    exports, saves, calls >>

\* save_torchscript, lines 94-95: torchscript.to(self.device).  None has no
\* method to.
relocate(p) ==
    /\ pc[p] = "to"
    /\ IF torchscript[p] = None
       THEN /\ Raise(p, AttributeError)
            /\ UNCHANGED << torchscript, fault, log >>
       ELSE /\ log' = [log EXCEPT ![p] = Append(@, "to")]
            /\ \E ok \in BOOLEAN :
                 IF ok
                 THEN /\ torchscript' = [torchscript EXCEPT ![p] = to(@, hook.device)]
                      /\ pc' = [pc EXCEPT ![p] = "open"]
                      /\ UNCHANGED << fault, result >>
                 ELSE /\ fault' = [fault EXCEPT ![p] = DeviceError]
                      /\ Raise(p, DeviceError)
                      /\ torchscript' = torchscript
    /\ UNCHANGED << ctor, entry, hook, model, dirs, files, handles, writers, training,
                    grad_enabled, scope, pending, io, last_call, ends, returns,
                    exports, saves, calls >>

\* lines 96-97: g_pathmgr.open(torchscript_name, "wb")
open(p) ==
    /\ pc[p] = "open"
    /\ LET torchscript_path == torchscript_name(hook.torchscript_folder) IN
       /\ log' = [log EXCEPT ![p] = Append(@, "open")]
       /\ io' = [io EXCEPT ![p] =
                   Append(@, [op |-> "open", path |-> torchscript_path, mode |-> "wb"])]
       /\ \E ok \in BOOLEAN :
            IF ok
            THEN /\ files' = [files EXCEPT ![torchscript_path] = truncated]
                 /\ handles' = handles \cup
                       { [owner |-> p, path |-> torchscript_path, mode |-> "wb"] }
                 /\ writers' = writers \cup {p}
                 /\ pc' = [pc EXCEPT ![p] = "save"]
                 /\ UNCHANGED << fault, result >>
            ELSE /\ fault' = [fault EXCEPT ![p] = OpenError]
                 /\ Raise(p, OpenError)
                 /\ UNCHANGED << files, handles, writers >>
    /\ UNCHANGED << ctor, entry, hook, model, dirs, training, grad_enabled, scope, torchscript,
                    pending, last_call, ends, returns, exports, saves, calls >>

\* line 98: torch.jit.save(torchscript, f) inside the with block of the handle
save(p) ==
    /\ pc[p] = "save"
    /\ LET torchscript_path == torchscript_name(hook.torchscript_folder) IN
       /\ log' = [log EXCEPT ![p] = Append(@, "save")]
       /\ io' = [io EXCEPT ![p] =
                   Append(@, [op |-> "write", path |-> torchscript_path, mode |-> "wb"])]
       /\ \E ok \in BOOLEAN :
            IF ok
            THEN /\ files' = [files EXCEPT ![torchscript_path] =
                                [exists |-> TRUE, data |-> serialize(torchscript[p])]]
                 /\ saves' = Append(saves,
                       [owner |-> p, path |-> torchscript_path,
                        data |-> serialize(torchscript[p])])
                 /\ UNCHANGED << fault, pending >>
            ELSE /\ fault' = [fault EXCEPT ![p] = SaveError]
                 /\ pending' = [pending EXCEPT ![p] = SaveError]
                 /\ UNCHANGED << files, saves >>
    /\ pc' = [pc EXCEPT ![p] = "close"]
    /\ UNCHANGED << ctor, entry, hook, model, dirs, handles, writers, training, grad_enabled,
                    scope, torchscript, result, last_call, ends, returns,
                    exports, calls >>

\* Variant that swallows the exception in flight.
with_exit_suppresses(err) == Returned

\* What on_end does when the with block of the handle is left with the
\* exception err in flight (NoError: none): no except clause, and the
\* handle's __exit__ does not suppress it.
with_exit_result(err) == IF err = NoError THEN Returned ELSE Raised(err)

\* Variant that closes nothing.
release_nothing(p, hs) == hs

\* The handles left open when the with block of process p is left.
release(p, hs) == { h \in hs : h.owner # p }

\* line 97, leaving the with block: the handle is closed, then the exception
\* in flight (if any) goes on to the caller, else on_end returns.
close(p) ==
    /\ pc[p] = "close"
    /\ handles' = release(p, handles)
    /\ log' = [log EXCEPT ![p] = Append(@, "close")]
    /\ pc' = [pc EXCEPT ![p] = "idle"]
    /\ result' = [result EXCEPT ![p] = with_exit_result(pending[p])]
    /\ returns' = [returns EXCEPT ![p] =
                     IF with_exit_result(pending[p]) = Returned THEN @ + 1 ELSE @]
    /\ pending' = [pending EXCEPT ![p] = NoError]
    /\ UNCHANGED << ctor, entry, hook, model, dirs, files, writers, training, grad_enabled,
                    scope, torchscript, fault, io, last_call, ends, exports,
                    saves, calls >>

Next ==
    \E p \in Procs :
        \/ on_phase_start(p)
        \/ on_phase_end(p)
        \/ on_step(p)
        \/ on_start(p)
        \/ on_end(p)
        \/ torchscript_using_trace(p)
        \/ trace(p)
        \/ torchscript_using_script(p)
        \/ script(p)
        \/ relocate(p)
        \/ open(p)
        \/ save(p)
        \/ close(p)

Spec == Init /\ [][Next]_vars

\* ------------------------------------------------------------ properties
Count(seq, x) == Cardinality({ i \in DOMAIN seq : seq[i] = x })

\* Process p is in no callback and the last callback it ran was call.
Finished(p, call) == pc[p] = "idle" /\ last_call[p] = call

\* The artifact's path, written out: {torchscript_folder}/torchscript.pt
ArtifactPath == << hook.torchscript_folder, "/", "torchscript.pt" >>

\* C1: on the designated writer, with use_trace and a model that has no
\* input_shape attribute, on_end returns normally, without invoking the
\* tracer and without any storage access.
C1_SkipReturnsNormally ==
    \A p \in Procs :
        ( /\ is_primary(p)
          /\ hook.use_trace
          /\ ~model.input_shape.has
          /\ Finished(p, "on_end") )
        => /\ result[p] = Returned
           /\ Count(log[p], "trace") = 0
           /\ io[p] = << >>

\* C2: on a process that is not the designated writer, on_start and on_end
\* access no storage, invoke neither tracer nor scripter and raise nothing,
\* whatever the directory, the strategy and the model.
C2_NonWriterDoesNothing ==
    \A p \in Procs :
        ~is_primary(p)
        => /\ pc[p] = "idle"
           /\ io[p] = << >>
           /\ log[p] = << >>
           /\ exports[p] = 0
           /\ result[p].status # "raised"
           /\ (last_call[p] # "none" => result[p] = Returned)
           /\ p \notin writers
           /\ \A h \in handles : h.owner # p
           /\ \A i \in DOMAIN saves : saves[i].owner # p

\* A non-writer has run on_end and then on_start, with use_trace, a model
\* without input_shape and a folder that does not exist.
C2_Witness ==
    \E p \in Procs :
        /\ ~is_primary(p)
        /\ ends[p] = 1
        /\ last_call[p] = "on_start"
        /\ result[p] = Returned
        /\ hook.use_trace
        /\ ~model.input_shape.has
        /\ ~exists(hook.torchscript_folder)

\* C3: on the designated writer, on_start raises FileNotFoundError, with the
\* configured folder in its message, exactly if the folder does not exist;
\* if it exists on_start returns; either way its only effect is the one
\* exists query.
C3_StartInv ==
    \A p \in Procs :
        (is_primary(p) /\ Finished(p, "on_start"))
        => /\ io[p] = << [op |-> "exists", path |-> << hook.torchscript_folder >>,
                          mode |-> ""] >>
           /\ log[p] = << >>
           /\ (result[p].status = "raised") <=> (hook.torchscript_folder \notin dirs)
           /\ (result[p].status = "returned") <=> (hook.torchscript_folder \in dirs)
           /\ result[p].status = "raised"
              => /\ result[p].error.type = "FileNotFoundError"
                 /\ \E i \in DOMAIN result[p].error.msg :
                        result[p].error.msg[i] = hook.torchscript_folder
                 /\ Len(result[p].error.msg) > 1

C3_StartStep ==
    \A p \in Procs :
        on_start(p)
        => UNCHANGED << hook, model, dirs, files, handles, writers, pc, training,
                        grad_enabled, torchscript, saves, exports >>

C3_StartFailsIffFolderMissing == [] C3_StartInv /\ [][C3_StartStep]_vars

\* The designated writer's on_start has raised for a missing folder.
C3_Witness ==
    \E p \in Procs :
        /\ is_primary(p)
        /\ Finished(p, "on_start")
        /\ result[p] = Raised(FileNotFoundError(hook.torchscript_folder))
        /\ hook.torchscript_folder = "out"
        /\ "out" \notin dirs

\* C4: whenever the tracer or the scripter is executing on a process's
\* model, that model is in evaluation mode.
C4_EvalModeWhileExporting ==
    \A p \in Procs : pc[p] \in {"trace", "script"} => ~training[p]

\* C5: with exactly one designated writer among the processes, at most one
\* process ever opens or writes the artifact, and two handles on it are
\* never open at the same time.
C5_SingleWriter ==
    Cardinality({ p \in Procs : is_primary(p) }) = 1
    => /\ Cardinality(writers) <= 1
       /\ Cardinality(handles) <= 1
       /\ Cardinality({ saves[i].owner : i \in DOMAIN saves }) <= 1
       /\ \A p \in Procs : io[p] # << >> => is_primary(p)

\* The writer holds the handle open while another process has been through
\* on_end.
C5_Witness ==
    \E p, q \in Procs :
        /\ p # q
        /\ pc[p] = "save"
        /\ [owner |-> p, path |-> ArtifactPath, mode |-> "wb"] \in handles
        /\ last_call[q] = "on_end"
        /\ result[q] = Returned

\* The case of C6: the designated writer has finished an on_end with
\* use_trace, a model with a non-empty input_shape and no input_key, and no
\* collaborator failed.
C6_Case(p) ==
    /\ is_primary(p)
    /\ hook.use_trace
    /\ model.input_shape.has
    /\ Len(model.input_shape.val) > 0
    /\ ~model.input_key.has
    /\ Finished(p, "on_end")
    /\ fault[p] = NoError

\* C6: in that case the tracer was invoked once and exactly one file was
\* opened and written: {torchscript_folder}/torchscript.pt, in mode "wb".
C6_TraceWritesOneFile ==
    \A p \in Procs :
        C6_Case(p)
        => /\ result[p] = Returned
           /\ Count(log[p], "trace") = 1
           /\ Count(log[p], "script") = 0
           /\ io[p] = << [op |-> "open", path |-> ArtifactPath, mode |-> "wb"],
                         [op |-> "write", path |-> ArtifactPath, mode |-> "wb"] >>
           /\ \A path \in DOMAIN files : files[path].exists => path = ArtifactPath
           /\ files[ArtifactPath].exists
           /\ Len(files[ArtifactPath].data) > 0

C6_Witness ==
    \E p \in Procs :
        /\ C6_Case(p)
        /\ hook.torchscript_folder = "out"
        /\ files[<< "out", "/", "torchscript.pt" >>].exists

\* C7: with use_trace false, on_end on the designated writer never looks at
\* input_shape or input_key and never invokes the tracer; it invokes the
\* scripter, and if nothing fails the program of the scripter, moved to the
\* device, is what {torchscript_folder}/torchscript.pt holds.
C7_ScriptIgnoresInputShape ==
    \A p \in Procs :
        (is_primary(p) /\ ~hook.use_trace /\ last_call[p] = "on_end")
        => /\ Count(log[p], "input_shape") = 0
           /\ Count(log[p], "input_key") = 0
           /\ Count(log[p], "get_model_dummy_input") = 0
           /\ Count(log[p], "trace") = 0
           /\ pc[p] \in {"idle", "to", "open", "save", "close"}
              => Count(log[p], "script") = 1
           /\ (pc[p] = "idle" /\ fault[p] = NoError)
              => /\ result[p] = Returned
                 /\ io[p] = << [op |-> "open", path |-> ArtifactPath, mode |-> "wb"],
                               [op |-> "write", path |-> ArtifactPath, mode |-> "wb"] >>
                 /\ files[ArtifactPath].exists
                 /\ Len(files[ArtifactPath].data) = 2
                 /\ files[ArtifactPath].data[2].kind = "script"

\* Scripting a model that has no input_shape has written the artifact.
C7_Witness ==
    \E p \in Procs :
        /\ is_primary(p)
        /\ ~hook.use_trace
        /\ ~model.input_shape.has
        /\ Finished(p, "on_end")
        /\ result[p] = Returned
        /\ files[ArtifactPath].exists

\* C8: the hook keeps no export state: two on_end calls on the designated
\* writer that both return are two exports and two writes to
\* {torchscript_folder}/torchscript.pt, the second with the same content as
\* the first, which is what the file holds afterwards.
C8_SecondExportOverwrites ==
    \A p \in Procs :
        (is_primary(p) /\ Finished(p, "on_end") /\ ends[p] = 2 /\ returns[p] = 2)
        => /\ exports[p] = 2
           /\ Len(saves) = 2
           /\ saves[1].path = ArtifactPath
           /\ saves[2].path = ArtifactPath
           /\ saves[2].data = saves[1].data
           /\ files[ArtifactPath] = [exists |-> TRUE, data |-> saves[1].data]
           /\ result[p] = Returned

C8_Witness ==
    \E p \in Procs :
        /\ is_primary(p)
        /\ Finished(p, "on_end")
        /\ ends[p] = 2
        /\ returns[p] = 2
        /\ Len(saves) = 2

\* C9: an error raised by the tracer, the scripter, the relocation, the
\* storage open or the serializer during on_end on the designated writer is
\* the error on_end raises, and no collaborator is invoked twice in one call.
C9_FailurePropagates ==
    \A p \in Procs :
        (is_primary(p) /\ last_call[p] = "on_end")
        => /\ (pc[p] = "idle" /\ fault[p] # NoError) => result[p] = Raised(fault[p])
           /\ \A c \in {"trace", "script", "to", "open", "save", "close"} :
                  Count(log[p], c) <= 1
           /\ Count(log[p], "trace") + Count(log[p], "script") <= 1

\* The serializer's error has reached the caller of on_end.
C9_Witness ==
    \E p \in Procs :
        /\ is_primary(p)
        /\ Finished(p, "on_end")
        /\ fault[p] = SaveError
        /\ result[p] = Raised(SaveError)

\* C10: a process that is in no callback holds no open storage handle; a
\* handle is open only between the open and the end of the with block.
C10_HandleClosed ==
    \A p \in Procs :
        /\ pc[p] = "idle" => \A h \in handles : h.owner # p
        /\ (\E h \in handles : h.owner = p) => pc[p] \in {"save", "close"}

\* on_end has raised the serializer's error after opening the handle, and
\* the handle is closed.
C10_Witness ==
    \E p \in Procs :
        /\ Finished(p, "on_end")
        /\ Count(log[p], "open") = 1
        /\ fault[p] = SaveError
        /\ result[p].status = "raised"
        /\ handles = {}


\* C11: once the export procedure is over on the designated writer (it
\* returned a program, skipped, or raised), the model's training mode is the
\* mode it had when the procedure was entered.
C11_ModeRestored ==
    \A p \in Procs :
        (is_primary(p) /\ last_call[p] = "on_end" /\ pc[p] \notin {"trace", "script"})
        => training[p] = entry[p].training

\* The tracer has raised on a model that was in training mode.
C11_Witness ==
    \E p \in Procs :
        /\ is_primary(p)
        /\ Finished(p, "on_end")
        /\ fault[p] = TraceError
        /\ entry[p].training
        /\ training[p]


\* C12: constructing the hook with a folder argument that is not a string
\* fails in the constructor (the assert), so no callback ever runs on it;
\* constructing it with any string succeeds and stores the four arguments
\* as given.
C12_ConstructionChecksType ==
    /\ ctor.torchscript_folder.type # "str"
       => /\ ~hook.ok
          /\ hook.error = "AssertionError"
          /\ calls = 0
          /\ \A p \in Procs : pc[p] = "idle" /\ last_call[p] = "none"
    /\ ctor.torchscript_folder.type = "str"
       => /\ hook.ok
          /\ hook.error = "none"
          /\ hook.torchscript_folder = ctor.torchscript_folder.val
          /\ hook.use_trace = ctor.use_trace
          /\ hook.trace_strict = ctor.trace_strict
          /\ hook.device = ctor.device

\* The constructor was given a number as the folder.
C12_Witness ==
    /\ ctor.torchscript_folder.type = "int"
    /\ ~hook.ok
    /\ ~ENABLED Next


\* The first position of x in seq, 0 if it does not occur.
Index(seq, x) ==
    IF \E i \in DOMAIN seq : seq[i] = x
    THEN CHOOSE i \in DOMAIN seq : seq[i] = x /\ \A j \in 1 .. (i - 1) : seq[j] # x
    ELSE 0

\* C13: in an on_end that gets as far as the storage, the program was moved
\* to the hook's device after the tracer / scripter ran and before the file
\* was opened; the program handed to the serializer, and so every artifact
\* written, reports the hook's device whatever the model's device.
C13_RelocatedBeforeWrite ==
    /\ \A p \in Procs :
         (is_primary(p) /\ last_call[p] = "on_end")
         => /\ Count(log[p], "open") > 0
               => /\ Index(log[p], "trace") + Index(log[p], "script") > 0
                  /\ Index(log[p], "trace") < Index(log[p], "to")
                  /\ Index(log[p], "script") < Index(log[p], "to")
                  /\ Index(log[p], "to") < Index(log[p], "open")
            /\ pc[p] \in {"open", "save", "close"}
               => torchscript[p].device = hook.device
    /\ \A i \in DOMAIN saves : saves[i].data[2].device = hook.device
    /\ \A path \in DOMAIN files :
         Len(files[path].data) > 0 => files[path].data[2].device = hook.device

\* An artifact for the cpu was written from a model that lives on cuda.
C13_Witness ==
    /\ model.device = "cuda"
    /\ hook.device = "cpu"
    /\ Len(saves) > 0
    /\ files[ArtifactPath].exists
    /\ Len(files[ArtifactPath].data) = 2
    /\ files[ArtifactPath].data[2].device = "cpu"


\* C14 as claimed: the folder of a constructed hook is a non-empty string.
C14_FolderNonEmpty == hook.ok => hook.torchscript_folder # ""

\* C14 as amended: in every state the folder of a constructed hook is the
\* string the constructor was given, unchanged; it may be the empty string.
C14_FolderIsGivenString ==
    hook.ok
    => /\ ctor.torchscript_folder.type = "str"
       /\ hook.torchscript_folder = ctor.torchscript_folder.val
       /\ hook.torchscript_folder \in Folders

\* A hook constructed with "" has exported to "/torchscript.pt".
C14_Witness ==
    /\ hook.ok
    /\ ctor.torchscript_folder = [type |-> "str", val |-> ""]
    /\ hook.torchscript_folder = ""
    /\ Len(saves) > 0
    /\ saves[1].path = << "", "/", "torchscript.pt" >>


\* C15: on_phase_start, on_phase_end and on_step do nothing on any process,
\* whenever they are called: the process stays in no callback, no error is
\* recorded, and storage, tracer / scripter counts, the model's mode, the
\* grad setting and the hook's configuration are all left as they were.
C15_NoopStep ==
    \A p \in Procs :
        (on_phase_start(p) \/ on_phase_end(p) \/ on_step(p))
        => /\ pc'[p] = "idle"
           /\ result'[p] = result[p]
           /\ UNCHANGED << hook, model, dirs, files, handles, writers, saves, io,
                           log, exports, training, grad_enabled, torchscript,
                           pc, fault, pending, result, last_call, ends, returns >>

C15_PhaseCallbacksAreNoops == [][C15_NoopStep]_vars

\* Two of these callbacks have run and nothing else has.
C15_Witness ==
    /\ hook.ok
    /\ calls = 2
    /\ \A p \in Procs : last_call[p] = "none" /\ pc[p] = "idle" /\ result[p] = NoResult
    /\ \A path \in DOMAIN files : files[path] = NoFile


\* C16: while the tracer or the scripter is executing on the designated
\* writer, gradient tracking is disabled; before and after (the procedure
\* returned, skipped or raised) it is the setting it had when the export
\* procedure was entered.
C16_GradDisabledWhileExporting ==
    \A p \in Procs :
        (is_primary(p) /\ last_call[p] = "on_end")
        => /\ pc[p] \in {"trace", "script"} => ~grad_enabled[p]
           /\ pc[p] \notin {"trace", "script"} => grad_enabled[p] = entry[p].grad

\* The scripter has raised in a run that had gradient tracking on, and it
\* is on again.
C16_Witness ==
    \E p \in Procs :
        /\ is_primary(p)
        /\ Finished(p, "on_end")
        /\ fault[p] = ScriptError
        /\ Count(log[p], "script") = 1
        /\ entry[p].grad
        /\ grad_enabled[p]


\* C17: under the trace strategy the tracer only ever runs with a non-empty
\* input shape; a model whose input_shape is there but empty is handled
\* exactly as one without input_shape: the warning is logged, no dummy input
\* is built, the tracer is not invoked and there is no program.
C17_TracerNeedsNonEmptyShape ==
    \A p \in Procs :
        (is_primary(p) /\ hook.use_trace /\ last_call[p] = "on_end")
        => /\ (pc[p] = "trace" \/ Count(log[p], "trace") > 0)
              => /\ model.input_shape.has
                 /\ Len(model.input_shape.val) > 0
           /\ torchscript[p] # None => Len(torchscript[p].input.shape) > 0
           /\ ( /\ (~model.input_shape.has \/ Len(model.input_shape.val) = 0)
                /\ pc[p] # "using_trace" )
              => /\ log[p] = << "input_shape", "warning" >>
                 /\ torchscript[p] = None
                 /\ io[p] = << >>
                 /\ pc[p] \in {"to", "idle"}

\* on_end has gone through the trace strategy with an empty input_shape.
C17_Witness ==
    \E p \in Procs :
        /\ is_primary(p)
        /\ hook.use_trace
        /\ model.input_shape = [has |-> TRUE, val |-> << >>]
        /\ Finished(p, "on_end")
        /\ log[p] = << "input_shape", "warning" >>


\* C18: in an on_end on the designated writer the stored use_trace alone
\* picks the strategy, and exclusively: with use_trace the scripter is never
\* invoked and the tracer at most once; without it the tracer is never
\* invoked and the scripter exactly once; a call yields at most one program,
\* of the chosen strategy's kind.
C18_StrategyExclusive ==
    \A p \in Procs :
        (is_primary(p) /\ last_call[p] = "on_end")
        => /\ hook.use_trace
              => /\ Count(log[p], "script") = 0
                 /\ Count(log[p], "trace") <= 1
                 /\ pc[p] \notin {"using_script", "script"}
           /\ ~hook.use_trace
              => /\ Count(log[p], "trace") = 0
                 /\ Count(log[p], "script") =
                        (IF pc[p] \in {"using_script", "script"} THEN 0 ELSE 1)
                 /\ pc[p] \notin {"using_trace", "trace"}
           /\ exports[p] <= ends[p]
           /\ torchscript[p] # None
              => torchscript[p].kind = (IF hook.use_trace THEN "trace" ELSE "script")

\* An on_end with use_trace has traced once and written the traced program.
C18_Witness ==
    \E p \in Procs :
        /\ is_primary(p)
        /\ hook.use_trace
        /\ Finished(p, "on_end")
        /\ result[p] = Returned
        /\ Count(log[p], "trace") = 1
        /\ exports[p] = 1
        /\ torchscript[p].kind = "trace"


\* C19: when the tracer, the scripter or the move to the device fails in an
\* on_end on the designated writer, that call makes no storage access at
\* all, and the files are as they were when the call began: an artifact of
\* an earlier export is neither truncated nor overwritten.
C19_FailedExportLeavesArtifact ==
    \A p \in Procs :
        ( /\ is_primary(p)
          /\ Finished(p, "on_end")
          /\ result[p].status = "raised"
          /\ result[p].error \in {TraceError, ScriptError, DeviceError, AttributeError} )
        => /\ io[p] = << >>
           /\ Count(log[p], "open") = 0
           /\ Count(log[p], "save") = 0
           /\ files = entry[p].files
           /\ \A h \in handles : h.owner # p

\* The move to the device has failed in a second on_end, and the artifact
\* of the first is still there.
C19_Witness ==
    \E p \in Procs :
        /\ is_primary(p)
        /\ Finished(p, "on_end")
        /\ ends[p] = 2
        /\ result[p] = Raised(DeviceError)
        /\ Len(saves) = 1
        /\ files[ArtifactPath] = [exists |-> TRUE, data |-> saves[1].data]

====
